---------------------------- MODULE Spec2Model ----------------------------
(* gatsby-source-s3: sourceNodes lists a bucket, filters the image objects, *)
(* fetches each through createRemoteFileNode and registers an S3ImageAsset *)
(* node with the host through createNode.  The model follows the event     *)
(* loop: one action per continuation that runs between two suspension      *)
(* points (await) of src/source-nodes.ts.                                  *)
EXTENDS Integers, Sequences, FiniteSets, TLC

\* ------------------------------------------------------------------ bounds
MaxObjects == 3      \* longest listing (Contents) explored
MaxETagLen == 3      \* longest ETag string explored by SpecId

\* ------------------------------------------------------ options and values
bucketName == "my-bucket"
domain == "s3.amazonaws.com"
protocol == "http"
S3SourceGatsbyNodeType == "S3ImageAsset"

Quote == "\""

\* JavaScript values that flow through the pipeline.
UndefinedV == [kind |-> "undefined"]
NullV == [kind |-> "null"]
Truthy(v) == v.kind \notin {"undefined", "null"}

\* mime.lookup(Key): the media type of a key, by its extension.
NoMime == [type |-> "false", subtype |-> ""]
MimeLookup(key) ==
    CASE key = "cat.jpg"    -> [type |-> "image", subtype |-> "jpeg"]
      [] key = "dog.png"    -> [type |-> "image", subtype |-> "png"]
      [] key = "readme.txt" -> [type |-> "text", subtype |-> "plain"]
      [] OTHER              -> NoMime

\* S3.Object: Key and ETag are optional fields of the listing's records.  The
\* listings hold complete objects, an image without ETag and an object
\* without Key.
Keys == {"cat.jpg", "dog.png", "readme.txt"}
ListedETags == {<<Quote, "a", Quote>>}
Entities ==
    [Key : Keys, ETag : ListedETags]
        \cup {[Key |-> "cat.jpg"]} \cup [ETag : ListedETags]

HasKey(entity) == "Key" \in DOMAIN entity
HasETag(entity) == "ETag" \in DOMAIN entity

\* utils.isImage: the key's media type has the top-level type image.
isImage(entity) == HasKey(entity) /\ MimeLookup(entity.Key).type = "image"

\* utils.constructS3UrlForAsset: protocol://domain/bucketName/key, nothing
\* when the key is absent.
NoUrl == <<>>
constructS3UrlForAsset(bucket, dom, entity, proto) ==
    IF HasKey(entity) THEN <<proto, "://", dom, "/", bucket, "/", entity.Key>>
    ELSE NoUrl

\* ETag!.replace(/"/g, ''): drop every double-quote character.
RECURSIVE StripQuotes(_)
StripQuotes(s) ==
    IF s = <<>> THEN <<>>
    ELSE IF Head(s) = Quote THEN StripQuotes(Tail(s))
    ELSE <<Head(s)>> \o StripQuotes(Tail(s))

\* The host's createNodeId: deterministic and injective in its seed.
createNodeId(seed) == <<"node-id">> \o seed

\* The descriptor createRemoteFileNode resolves to for a fetched url.
FileNodeFor(url) ==
    [kind |-> "object", id |-> <<"file-id">> \o url,
     absolutePath |-> <<"/cache">> \o url]

\* getEntityNodeFields: throws a TypeError when the entity has no ETag.
GetEntityNodeFields(entity, fileNode) ==
    IF ~HasETag(entity) THEN [threw |-> TRUE]
    ELSE LET Key == IF HasKey(entity) THEN entity.Key ELSE ""
         IN  [threw |-> FALSE,
              absolutePath |-> fileNode.absolutePath,
              fileNodeId |-> fileNode.id,
              Key |-> Key,
              mediaType |-> MimeLookup(Key),
              objectHash |-> StripQuotes(entity.ETag)]

\* The id of the asset node built from the fields of an entity.
NodeId_fromKey(fields) == createNodeId(<<fields.Key>>)
NodeId(fields) == createNodeId(fields.objectHash)

\* createS3ImageAssetNode up to its call of createNode: it rejects without a
\* file node, throws with getEntityNodeFields, or calls createNode(node).
CreateS3ImageAssetNode(entity, fileNode, url) ==
    IF ~Truthy(fileNode) THEN [outcome |-> "reject"]
    ELSE LET f == GetEntityNodeFields(entity, fileNode)
         IN  IF f.threw THEN [outcome |-> "throw"]
             ELSE [outcome |-> "createNode",
                   node |-> [kind |-> "object",
                             absolutePath |-> f.absolutePath,
                             ETag |-> f.objectHash,
                             id |-> NodeId(f),
                             Key |-> f.Key,
                             parent |-> f.fileNodeId,
                             internal |-> [content |-> url,
                                           contentDigest |-> f.objectHash,
                                           mediaType |-> f.mediaType,
                                           type |-> S3SourceGatsbyNodeType]]]

NoNode == [kind |-> "none"]

\* ------------------------------------------------------------------- state
VARIABLES
    phase,            \* idle, listing, running, resolved, rejected (pure: SpecId)
    listCalls,        \* calls of listObjectsV2
    listOutcome,      \* none, failed, absent, empty, objects: the listing's answer
    s3Entities,       \* Contents of the listing response
    pc,               \* per object: where its async callback stands
    promises,         \* the array handed to Promise.all
    fetchCalls,       \* per object: calls of createRemoteFileNode
    fetchResult,      \* per object: what createRemoteFileNode settled with
    createNodeCalls,  \* per object: calls of createNode for the asset node
    nodes,            \* per object: the node passed to createNode
    result,           \* what sourceNodes resolved to
    outOfOrder        \* some object settled while an earlier one was in flight

vars == <<phase, listCalls, listOutcome, s3Entities, pc, promises, fetchCalls,
          fetchResult, createNodeCalls, nodes, result, outOfOrder>>

Objects == 1..Len(s3Entities)
InFlight == {"fetching", "creating"}

Init ==
    /\ phase = "idle"
    /\ listCalls = 0
    /\ listOutcome = "none"
    /\ s3Entities = <<>>
    /\ pc = <<>>
    /\ promises = <<>>
    /\ fetchCalls = <<>>
    /\ fetchResult = <<>>
    /\ createNodeCalls = <<>>
    /\ nodes = <<>>
    /\ result = <<>>
    /\ outOfOrder = FALSE


\* --------------------------------------------------------------- promises
PendingPromise(i) ==
    [kind |-> "promise", owner |-> i, state |-> "pending", value |-> UndefinedV]
Fulfil(p, v) == [p EXCEPT !.state = "fulfilled", !.value = v]
Reject(p) == [p EXCEPT !.state = "rejected"]

\* _.compact: keep the truthy elements of an array.
Compact(array) == SelectSeq(array, Truthy)

\* The catch block: Promise.reject(...) is created and dropped, the callback
\* falls off its end, so its promise is fulfilled with undefined.
CatchBlock_rethrow(p) == Reject(p)
CatchBlock(p) == Fulfil(p, UndefinedV)

\* The guard on the fetched descriptor, if (!fileNode) return.
FileNodeMissing(fileNode) == ~Truthy(fileNode)

\* The response has no objects: !s3Entities || _.isEmpty(s3Entities).
HasContents(resp) == "Contents" \in DOMAIN resp
NoEntities_onlyEmpty(resp) == HasContents(resp) /\ resp.Contents = <<>>
NoEntities(resp) == ~HasContents(resp) \/ resp.Contents = <<>>

\* What the listing answered with, for the record.
ResponseShape(resp) ==
    IF ~HasContents(resp) THEN "absent"
    ELSE IF resp.Contents = <<>> THEN "empty"
    ELSE "objects"

Url(entity) == constructS3UrlForAsset(bucketName, domain, entity, protocol)

\* The callback of s3Entities.map up to its first await: an object that is no
\* image or has no url returns, any other one calls createRemoteFileNode.
Classify_noFilter(entity) ==
    IF Url(entity) = NoUrl THEN "skipped" ELSE "fetching"
Classify(entity) ==
    IF ~isImage(entity) THEN "skipped"
    ELSE IF Url(entity) = NoUrl THEN "skipped"
    ELSE "fetching"

\* s3Entities.map(async ...): every callback runs to its first await, in
\* listing order, before any of them is resumed.
Launch_oneAtATime(entities) ==
    [i \in 1..Len(entities) |->
        IF Classify(entities[i]) = "fetching"
           /\ \E j \in 1..(i - 1) : Classify(entities[j]) = "fetching"
        THEN "queued"
        ELSE Classify(entities[i])]
Launch(entities) == [i \in 1..Len(entities) |-> Classify(entities[i])]

\* Promise.all: rejected with the first rejection, fulfilled when every
\* promise of the array is fulfilled.
PromiseAllState_any(ps) ==
    IF \E k \in 1..Len(ps) : ps[k].state = "fulfilled" THEN "fulfilled"
    ELSE "pending"
PromiseAllState(ps) ==
    IF \E k \in 1..Len(ps) : ps[k].state = "rejected" THEN "rejected"
    ELSE IF \A k \in 1..Len(ps) : ps[k].state = "fulfilled" THEN "fulfilled"
    ELSE "pending"

\* The slot of Promise.all's value array that the promise of object i fills.
SlotOf_firstPending(ps, i) ==
    CHOOSE k \in 1..Len(ps) :
        /\ ps[k].state = "pending"
        /\ \A m \in 1..(k - 1) : ps[m].state # "pending"
SlotOf(ps, i) == CHOOSE k \in 1..Len(ps) : ps[k].owner = i

\* return await Promise.all(...): sourceNodes settles as Promise.all does.
Return(cur, ps) ==
    LET st == PromiseAllState(ps)
    IN  /\ phase' = IF cur # "running" THEN cur
                    ELSE IF st = "fulfilled" THEN "resolved"
                    ELSE IF st = "rejected" THEN "rejected"
                    ELSE "running"
        /\ result' = IF cur = "running" /\ st = "fulfilled"
                     THEN [k \in 1..Len(ps) |-> ps[k].value]
                     ELSE result

\* The callback of object i ends: its promise becomes p2.
Settle(i, p2, endPc) ==
    LET k == SlotOf(promises, i)
        ps == [promises EXCEPT ![k] = p2]
    IN  /\ promises' = ps
        /\ pc' = [pc EXCEPT ![i] = endPc]
        /\ outOfOrder' = (outOfOrder \/ \E j \in 1..(i - 1) : pc[j] \in InFlight)
        /\ Return(phase, ps)

MyPromise(i) == promises[SlotOf(promises, i)]

\* ----------------------------------------------------------------- actions
\* sourceNodes is called: the S3 client is built and listObjectsV2 is issued.
CallSourceNodes ==
    /\ phase = "idle"
    /\ phase' = "listing"
    /\ listCalls' = listCalls + 1
    /\ UNCHANGED <<listOutcome, s3Entities, pc, promises, fetchCalls, fetchResult,
                   createNodeCalls, nodes, result, outOfOrder>>

\* The listing call rejects: the await throws out of sourceNodes.
ListObjectsV2Rejects_retry ==
    /\ phase = "listing"
    /\ listCalls < 2
    /\ listCalls' = listCalls + 1
    /\ listOutcome' = "failed"
    /\ UNCHANGED <<phase, s3Entities, pc, promises, fetchCalls, fetchResult,
                   createNodeCalls, nodes, result, outOfOrder>>
ListObjectsV2Rejects ==
    /\ phase = "listing"
    /\ phase' = "rejected"
    /\ listOutcome' = "failed"
    /\ UNCHANGED <<listCalls, s3Entities, pc, promises, fetchCalls, fetchResult,
                   createNodeCalls, nodes, result, outOfOrder>>

Listings == UNION {[1..n -> Entities] : n \in 0..MaxObjects}
Responses ==
    {[IsTruncated |-> FALSE]}
        \cup {[IsTruncated |-> FALSE, Contents |-> c] : c \in Listings}

\* The listing call resolves: the rest of sourceNodes runs up to the await
\* of Promise.all.
ListObjectsV2Resolves(resp) ==
    /\ phase = "listing"
    /\ UNCHANGED <<listCalls, outOfOrder>>
    /\ listOutcome' = ResponseShape(resp)
    /\ IF NoEntities(resp)
       THEN /\ phase' = "resolved"
            /\ result' = <<>>
            /\ UNCHANGED <<s3Entities, pc, promises, fetchCalls, fetchResult,
                           createNodeCalls, nodes>>
       ELSE IF ~HasContents(resp)
       THEN \* undefined.map(...) throws a TypeError out of sourceNodes
            /\ phase' = "rejected"
            /\ UNCHANGED <<s3Entities, pc, promises, fetchCalls, fetchResult,
                           createNodeCalls, nodes, result>>
       ELSE LET entities == resp.Contents
                n == Len(entities)
                started == Launch(entities)
                mapped == [i \in 1..n |->
                              IF started[i] = "skipped"
                              THEN Fulfil(PendingPromise(i), UndefinedV)
                              ELSE PendingPromise(i)]
                ps == Compact(mapped)
            IN  /\ s3Entities' = entities
                /\ pc' = started
                /\ promises' = ps
                /\ fetchCalls' = [i \in 1..n |->
                                     IF started[i] = "fetching" THEN 1 ELSE 0]
                /\ fetchResult' = [i \in 1..n |->
                                      IF started[i] = "fetching" THEN "pending"
                                      ELSE "none"]
                /\ createNodeCalls' = [i \in 1..n |-> 0]
                /\ nodes' = [i \in 1..n |-> NoNode]
                /\ Return("running", ps)

\* createRemoteFileNode resolves for object i: the callback resumes at the
\* guard on fileNode and runs createS3ImageAssetNode up to the await of
\* createNode's return value.  host is what the host's createNode does when
\* it is called: it returns (a value or a promise) or it throws.
CreateRemoteFileNodeResolves(i, fileNode, host) ==
    /\ i \in Objects
    /\ pc[i] = "fetching"
    /\ fetchResult' = [fetchResult EXCEPT
                          ![i] = IF Truthy(fileNode) THEN "truthy" ELSE "falsy"]
    /\ UNCHANGED <<listCalls, listOutcome, s3Entities, fetchCalls>>
    /\ IF FileNodeMissing(fileNode)
       THEN /\ host = "returns"
            /\ Settle(i, Fulfil(MyPromise(i), UndefinedV), "falsy")
            /\ UNCHANGED <<createNodeCalls, nodes>>
       ELSE LET r == CreateS3ImageAssetNode(s3Entities[i], fileNode,
                                            Url(s3Entities[i]))
            IN  IF r.outcome = "createNode"
                THEN /\ createNodeCalls' =
                            [createNodeCalls EXCEPT ![i] = @ + 1]
                     /\ nodes' = [nodes EXCEPT ![i] = r.node]
                     /\ IF host = "returns"
                        THEN /\ pc' = [pc EXCEPT ![i] = "creating"]
                             /\ UNCHANGED <<phase, promises, result, outOfOrder>>
                        ELSE Settle(i, CatchBlock(MyPromise(i)), "failed")
                ELSE /\ host = "returns"
                     /\ Settle(i, CatchBlock(MyPromise(i)), "failed")
                     /\ UNCHANGED <<createNodeCalls, nodes>>

\* createRemoteFileNode rejects for object i: the catch block runs.
CreateRemoteFileNodeRejects_retry(i) ==
    /\ i \in Objects
    /\ pc[i] = "fetching"
    /\ fetchCalls[i] < 2
    /\ fetchCalls' = [fetchCalls EXCEPT ![i] = @ + 1]
    /\ UNCHANGED <<phase, listCalls, listOutcome, s3Entities, pc, promises,
                   fetchResult, createNodeCalls, nodes, result, outOfOrder>>
CreateRemoteFileNodeRejects(i) ==
    /\ i \in Objects
    /\ pc[i] = "fetching"
    /\ fetchResult' = [fetchResult EXCEPT ![i] = "rejected"]
    /\ Settle(i, CatchBlock(MyPromise(i)), "failed")
    /\ UNCHANGED <<listCalls, listOutcome, s3Entities, fetchCalls,
                   createNodeCalls, nodes>>

\* What the host's createNode hands back for a node it has persisted.
CreateNodeValue(node) == node

\* The promise createNode returned for object i is fulfilled: the callback
\* returns its value.
CreateNodeResolves(i) ==
    /\ i \in Objects
    /\ pc[i] = "creating"
    /\ Settle(i, Fulfil(MyPromise(i), CreateNodeValue(nodes[i])), "created")
    /\ UNCHANGED <<listCalls, listOutcome, s3Entities, fetchCalls, fetchResult,
                   createNodeCalls, nodes>>

\* The promise createNode returned for object i is rejected: the catch block
\* runs.
CreateNodeRejects(i) ==
    /\ i \in Objects
    /\ pc[i] = "creating"
    /\ Settle(i, CatchBlock(MyPromise(i)), "failed")
    /\ UNCHANGED <<listCalls, listOutcome, s3Entities, fetchCalls, fetchResult,
                   createNodeCalls, nodes>>

FileNodes(i) == {FileNodeFor(Url(s3Entities[i])), NullV}

Next ==
    \/ CallSourceNodes
    \/ ListObjectsV2Rejects
    \/ \E resp \in Responses : ListObjectsV2Resolves(resp)
    \/ \E i \in Objects :
          \E fileNode \in FileNodes(i), host \in {"returns", "throws"} :
              CreateRemoteFileNodeResolves(i, fileNode, host)
    \/ \E i \in Objects : CreateRemoteFileNodeRejects(i)
    \/ \E i \in Objects : CreateNodeResolves(i)
    \/ \E i \in Objects : CreateNodeRejects(i)

Spec == Init /\ [][Next]_vars

\* ------------------------------------------- node identity as a function
\* createS3ImageAssetNode applied to two image objects whose ETags range
\* over every string of quotes and letters up to MaxETagLen.
ETagChars == {Quote, "a"}
ETagStrings == UNION {[1..n -> ETagChars] : n \in 0..MaxETagLen}
IdEntities == [Key : {"cat.jpg", "dog.png"}, ETag : ETagStrings]

InitId ==
    /\ phase = "pure"
    /\ listCalls = 0
    /\ listOutcome = "none"
    /\ s3Entities \in [1..2 -> IdEntities]
    /\ pc = <<>>
    /\ promises = <<>>
    /\ fetchCalls = <<>>
    /\ fetchResult = <<>>
    /\ createNodeCalls = <<0, 0>>
    /\ nodes = <<NoNode, NoNode>>
    /\ result = <<>>
    /\ outOfOrder = FALSE

\* One call of createS3ImageAssetNode, with the file node of the object's url.
BuildNode(i) ==
    /\ phase = "pure"
    /\ i \in Objects
    /\ nodes[i] = NoNode
    /\ LET url == Url(s3Entities[i])
           r == CreateS3ImageAssetNode(s3Entities[i], FileNodeFor(url), url)
       IN  /\ r.outcome = "createNode"
           /\ nodes' = [nodes EXCEPT ![i] = r.node]
           /\ createNodeCalls' = [createNodeCalls EXCEPT ![i] = @ + 1]
    /\ UNCHANGED <<phase, listCalls, listOutcome, s3Entities, pc, promises,
                   fetchCalls, fetchResult, result, outOfOrder>>

NextId == \E i \in Objects : BuildNode(i)

SpecId == InitId /\ [][NextId]_vars

\* ------------------------------------------------------------------ claims
Returned == phase = "resolved"
Settled(i) == pc[i] \in {"skipped", "falsy", "failed", "created"}
Qualifies(i) == HasKey(s3Entities[i]) /\ isImage(s3Entities[i])
Indices(n) == [i \in 1..n |-> i]
IsCreated(i) == pc[i] = "created"
\* The objects whose node was created, in listing order.
CreatedInListingOrder == SelectSeq(Indices(Len(pc)), IsCreated)
AssetCalls == {i \in DOMAIN createNodeCalls : createNodeCalls[i] >= 1}

\* C1: the sequence sourceNodes resolves to has exactly one element per
\* object for which createNode was called for the asset node, and no
\* undefined or null placeholder for a skipped or failed object.
C1_NoPlaceholders ==
    Returned =>
        /\ Len(result) = Cardinality(AssetCalls)
        /\ \A k \in 1..Len(result) : Truthy(result[k])

\* C2: a failure during fetch-and-build of one object (the fetch rejects,
\* getEntityNodeFields throws, createNode throws or rejects) never makes
\* sourceNodes reject, and every other qualifying object is still fetched
\* once and gets its createNode call once its own fetch has returned a
\* descriptor; the run resolves as soon as every object has settled.
C2_FailureIsolated ==
    /\ (listOutcome # "failed" => phase # "rejected")
    /\ \A i \in Objects :
          /\ Qualifies(i) => fetchCalls[i] = 1
          /\ (fetchResult[i] = "truthy" /\ HasETag(s3Entities[i]))
                => createNodeCalls[i] = 1
    /\ (listOutcome = "objects" /\ \A i \in Objects : Settled(i)) => Returned
C2_Witness ==
    /\ Returned
    /\ \E i, j, k \in Objects :
          /\ pc[i] = "failed" /\ fetchResult[i] = "rejected"
          /\ pc[j] = "failed" /\ createNodeCalls[j] = 1
          /\ pc[k] = "created" /\ Truthy(result[k])

\* C3: an object that is not an image is never fetched and never gets a
\* createNode call.
C3_NonImageUntouched ==
    \A i \in Objects :
        ~isImage(s3Entities[i]) =>
            /\ fetchCalls[i] = 0
            /\ fetchResult[i] = "none"
            /\ createNodeCalls[i] = 0
            /\ nodes[i] = NoNode
C3_Witness ==
    /\ Returned
    /\ \E i, j \in Objects :
          /\ HasKey(s3Entities[i]) /\ s3Entities[i].Key = "readme.txt"
          /\ pc[i] = "skipped"
          /\ pc[j] = "created"

\* C4: the created nodes appear in the returned sequence in the order of
\* their objects in the listing, whatever order the fetches and createNode
\* calls completed in.
C4_ListingOrder ==
    Returned =>
        SelectSeq(result, Truthy) =
            [k \in 1..Len(CreatedInListingOrder) |->
                CreateNodeValue(nodes[CreatedInListingOrder[k]])]
C4_Witness ==
    /\ Returned
    /\ outOfOrder
    /\ \E i, j \in Objects :
          /\ i < j
          /\ pc[i] = "created" /\ pc[j] = "created"
          /\ nodes[i] # nodes[j]

\* C5: when sourceNodes has resolved, no fetch is in flight and no
\* createNode call is pending or yet to be issued for any object.
C5_AllFinishedOnReturn ==
    Returned => \A i \in Objects : Settled(i)
C5_Witness ==
    /\ Returned
    /\ outOfOrder
    /\ \E i, j \in Objects : pc[i] = "created" /\ pc[j] = "failed"

\* C6: when the listing call fails, sourceNodes rejects, the listing was
\* called once, and no fetch and no createNode call is made.
C6_ListingFailureFatal ==
    listOutcome = "failed" =>
        /\ phase = "rejected"
        /\ listCalls = 1
        /\ s3Entities = <<>>
        /\ \A i \in DOMAIN fetchCalls : fetchCalls[i] = 0
        /\ \A i \in DOMAIN createNodeCalls : createNodeCalls[i] = 0
C6_Witness == listOutcome = "failed" /\ phase = "rejected"

\* C7: when the listing response has no Contents (absent or an empty list),
\* sourceNodes resolves to an empty sequence and makes no fetch and no
\* createNode call.
C7_EmptyBucket ==
    listOutcome \in {"absent", "empty"} =>
        /\ Returned
        /\ result = <<>>
        /\ \A i \in DOMAIN fetchCalls : fetchCalls[i] = 0
        /\ \A i \in DOMAIN createNodeCalls : createNodeCalls[i] = 0
C7_Witness == listOutcome = "absent" /\ Returned /\ result = <<>>

\* C8 as stated: two created nodes have the same id exactly when their
\* objects have the same ETag.
Built(i) == nodes[i] # NoNode
NotQuote(c) == c # Quote
WithoutQuotes(etag) == SelectSeq(etag, NotQuote)
C8_IdIffSameETag ==
    \A i, j \in Objects :
        (Built(i) /\ Built(j)) =>
            ((s3Entities[i].ETag = s3Entities[j].ETag)
                <=> (nodes[i].id = nodes[j].id))
\* C8 as amended: the id depends only on the ETag, objects with the same
\* ETag get the same id, and two ids differ exactly when the ETags differ
\* in something other than their double-quote characters.
C8_IdIffSameUnquotedETag ==
    \A i, j \in Objects :
        (Built(i) /\ Built(j)) =>
            /\ (s3Entities[i].ETag = s3Entities[j].ETag)
                  => (nodes[i].id = nodes[j].id)
            /\ (WithoutQuotes(s3Entities[i].ETag)
                    = WithoutQuotes(s3Entities[j].ETag))
                  <=> (nodes[i].id = nodes[j].id)
C8_Witness ==
    /\ Built(1) /\ Built(2)
    /\ s3Entities[1].ETag = <<Quote, "a", Quote>>
    /\ s3Entities[2].ETag = <<"a">>
    /\ s3Entities[1].Key # s3Entities[2].Key
    /\ nodes[1].id = nodes[2].id

\* C9: each object moves forward only: it is fetched at most once, gets at
\* most one createNode call and only after its fetch returned a descriptor,
\* and a fetch that returned nothing ends the object with no createNode
\* call and no error.
Rank(l) ==
    CASE l = "queued" -> 0
      [] l = "fetching" -> 1
      [] l = "creating" -> 2
      [] OTHER -> 3
C9_Inv ==
    \A i \in Objects :
        /\ fetchCalls[i] <= 1
        /\ createNodeCalls[i] <= 1
        /\ createNodeCalls[i] = 1 => fetchResult[i] = "truthy"
        /\ fetchResult[i] = "falsy" =>
              /\ createNodeCalls[i] = 0
              /\ pc[i] = "falsy"
              /\ MyPromise(i).state = "fulfilled"
              /\ MyPromise(i).value = UndefinedV
C9_Step ==
    \A i \in DOMAIN pc :
        /\ i \in DOMAIN pc'
        /\ Rank(pc[i]) <= Rank(pc'[i])
        /\ Settled(i) => pc'[i] = pc[i]
        /\ fetchCalls'[i] >= fetchCalls[i]
        /\ createNodeCalls'[i] >= createNodeCalls[i]
C9_LinearLifecycle == []C9_Inv /\ [][C9_Step]_vars
C9_Witness ==
    /\ Returned
    /\ \E i, j \in Objects :
          /\ fetchResult[i] = "falsy" /\ pc[i] = "falsy"
          /\ pc[j] = "created"

\* C10: the fetch of every qualifying object is issued when the listing
\* resolves, without waiting for any other object, so all of them are in
\* flight at once; a fetch that has not completed leaves every other
\* object free to complete, and only keeps sourceNodes from resolving.
C10_Inv ==
    /\ phase \in {"running", "resolved"} =>
          \A i \in Objects : Qualifies(i) => fetchCalls[i] = 1
    /\ \A i \in Objects :
          /\ pc[i] = "fetching" =>
                /\ ~Returned
                /\ ENABLED CreateRemoteFileNodeRejects(i)
          /\ pc[i] = "creating" => ENABLED CreateNodeResolves(i)
C10_LaunchStep ==
    (phase = "listing" /\ phase' = "running") =>
        \A i \in DOMAIN pc' :
            (HasKey(s3Entities'[i]) /\ isImage(s3Entities'[i]))
                => pc'[i] = "fetching"
C10_UnboundedFanOut == []C10_Inv /\ [][C10_LaunchStep]_vars
C10_Witness ==
    /\ Len(s3Entities) >= 3
    /\ phase = "running"
    /\ pc[1] = "fetching"
    /\ \A i \in Objects : i # 1 => pc[i] = "created"
=============================================================================
